---- MODULE Spec2Model ----
(***************************************************************************)
(* AppointAI backend: the chat command pipeline (ChatService), the slot    *)
(* finder, the event matcher and the persistence services it drives.       *)
(*                                                                         *)
(* Times of day are minutes since midnight (the services parse and print   *)
(* "%H:%M", so a stored time never has seconds).  Dates are day numbers;   *)
(* a date string is <<"iso", d>> (the zero-padded ISO form of day d),      *)
(* <<"loose", d>> (an unpadded form such as 2024-3-1, which strptime       *)
(* accepts and date.fromisoformat rejects) or <<"junk">>.  Text is a tuple *)
(* of one-character strings.                                               *)
(***************************************************************************)
EXTENDS Integers, Sequences, FiniteSets, TLC

VARIABLES events, categories, todos, call, ret

vars == <<events, categories, todos, call, ret>>

\* Python's None where a text, a date string or a time string may stand: a
\* tuple no text equals (its one element is not a single character).
None == <<"None">>

(***************************************************************************)
(* Bounds of the model.                                                    *)
(***************************************************************************)
MaxEvents == 2      \* events added freely to a calendar

\* user ids: only their equality matters
Users == {"alice", "bob"}

(***************************************************************************)
(* Conversions.  Each parser is a pair: whether the call returns (Ok...)   *)
(* and the value it returns when it does.                                  *)
(***************************************************************************)
\* date.isoformat() / str(date)
IsoFormat(d) == <<"iso", d>>

\* date.fromisoformat(s) returns (otherwise ValueError / TypeError)
OkFromIsoFormat(s) == s[1] = "iso"
FromIsoFormat(s) == s[2]

\* datetime.strptime(s, "%Y-%m-%d").date()
OkStrpDate(s) == s[1] \in {"iso", "loose"}
StrpDate(s) == s[2]

\* datetime.strftime("%H:%M"): the clock time of a timestamp, its date dropped
StrfTime(t) == <<"hm", (t % 1440) \div 60, t % 60>>

\* datetime.strptime(s, "%H:%M").time(), in minutes since midnight
OkStrpTime(s) == s[1] = "hm" /\ s[2] \in 0..23 /\ s[3] \in 0..59
StrpTime(s) == s[2] * 60 + s[3]

(***************************************************************************)
(* Text.                                                                   *)
(***************************************************************************)
Digits == {"0", "1", "2", "3", "4", "5", "6", "7", "8", "9"}

DigitVal(c) ==
    CASE c = "0" -> 0 [] c = "1" -> 1 [] c = "2" -> 2 [] c = "3" -> 3
      [] c = "4" -> 4 [] c = "5" -> 5 [] c = "6" -> 6 [] c = "7" -> 7
      [] c = "8" -> 8 [] c = "9" -> 9

\* c in s
HasChar(s, c) == \E i \in 1..Len(s) : s[i] = c

\* s.replace(c, '')
StrReplace(s, c) == SelectSeq(s, LAMBDA x : x # c)

RECURSIVE DecVal(_)
DecVal(s) == IF s = <<>> THEN 0 ELSE 10 * DecVal(SubSeq(s, 1, Len(s) - 1)) + DigitVal(s[Len(s)])

RECURSIVE Pow10(_)
Pow10(n) == IF n = 0 THEN 1 ELSE 10 * Pow10(n - 1)

\* a leading minus sign, which int() and float() accept
Negative(s) == s # <<>> /\ s[1] = "-"
Unsigned(s) == IF Negative(s) THEN Tail(s) ELSE s

\* int(s) for text over digits, "-", "." and letters returns (otherwise ValueError)
OkPyInt(s) ==
    LET u == Unsigned(s) IN u # <<>> /\ \A i \in 1..Len(u) : u[i] \in Digits

PyInt(s) == IF Negative(s) THEN 0 - DecVal(Unsigned(s)) ELSE DecVal(s)

\* float(s) for such text returns
OkPyFloat(s) ==
    LET u == Unsigned(s)
    IN  /\ Cardinality({i \in 1..Len(u) : u[i] = "."}) <= 1
        /\ StrReplace(u, ".") # <<>>
        /\ \A i \in 1..Len(u) : u[i] \in Digits \cup {"."}

\* int(float(s) * 60), which truncates toward zero; the fractions of the model
\* are exact in binary floating point
PyFloatTimes60(s) ==
    LET u == Unsigned(s)
        dots == {i \in 1..Len(u) : u[i] = "."}
        frac == IF dots = {} THEN 0 ELSE Len(u) - (CHOOSE i \in dots : TRUE)
        mag == (DecVal(StrReplace(u, ".")) * 60) \div Pow10(frac)
    IN  IF Negative(s) THEN 0 - mag ELSE mag

(***************************************************************************)
(* EventService.get_events_by_user                                         *)
(***************************************************************************)
get_events_of_everyone(evs, user_id) == evs

get_events_by_user(evs, user_id) == SelectSeq(evs, LAMBDA e : e.user_id = user_id)

(***************************************************************************)
(* ChatService.find_available_slot                                         *)
(***************************************************************************)
range_days == 7
work_start == 540
work_end == 1020

\* a number of the extraction output: json.loads returns an int, not a str
JNumber(digits) == <<"number", digits>>
IsJNumber(v) == Len(v) = 2 /\ v[1] = "number"

\* line 318: None, "" and 0 are falsy and skip the parse
FalsyDuration(duration_str) == duration_str \in {None, <<>>, JNumber("0")}

\* line 319: 'h' in duration_str is evaluated outside the try of line 320 and
\* raises TypeError when duration_str is a number
OkParseDuration(duration_str) == FalsyDuration(duration_str) \/ ~IsJNumber(duration_str)

\* lines 316-328: the duration in minutes
ParseDuration(duration_str) ==
    IF FalsyDuration(duration_str) THEN 60
    ELSE IF HasChar(duration_str, "h")
         THEN LET x == StrReplace(duration_str, "h")
              IN IF OkPyFloat(x) THEN PyFloatTimes60(x) ELSE 60
    ELSE IF HasChar(duration_str, "m")
         THEN LET x == StrReplace(duration_str, "m")
              IN IF OkPyInt(x) THEN PyInt(x) ELSE 60
    ELSE 60

\* lines 339: the user's events on check_date, in storage order
DayEvents(user_events, check_date) ==
    SelectSeq(user_events, LAMBDA e : e.date = check_date)

\* line 340: list.sort(key=start_time), a stable sort
RECURSIVE Insert(_, _)
Insert(sorted, e) ==
    IF sorted = <<>> THEN <<e>>
    ELSE IF sorted[Len(sorted)].start_time <= e.start_time THEN Append(sorted, e)
    ELSE Append(Insert(SubSeq(sorted, 1, Len(sorted) - 1), e), sorted[Len(sorted)])

RECURSIVE SortByStart(_)
SortByStart(s) ==
    IF s = <<>> THEN <<>>
    ELSE Insert(SortByStart(SubSeq(s, 1, Len(s) - 1)), s[Len(s)])

\* lines 345-350: the busy interval of one event (end_time is a non-null
\* column; -1 stands for a falsy end_time)
BusySlot(e) ==
    <<e.start_time, IF e.end_time # -1 THEN e.end_time ELSE e.start_time + 60>>

\* lines 339-351: the busy intervals of the day, in start order
BusySlots(user_events, check_date) ==
    LET day_events == SortByStart(DayEvents(user_events, check_date))
    IN  [i \in 1..Len(day_events) |-> BusySlot(day_events[i])]

IsBusyWithTouching(current_slot_start, slot_end, b_start, b_end) ==
    current_slot_start <= b_end /\ slot_end >= b_start

\* line 364: the overlap check of the scan
IsBusyWith(current_slot_start, slot_end, b_start, b_end) ==
    current_slot_start < b_end /\ slot_end > b_start

FirstConflictHeadOnly(busy_slots, current_slot_start, slot_end) ==
    IF /\ busy_slots # <<>>
       /\ IsBusyWith(current_slot_start, slot_end, busy_slots[1][1], busy_slots[1][2])
    THEN 1 ELSE 0

\* lines 361-368: the first busy slot, in list order, the candidate overlaps (0: none)
FirstConflict(busy_slots, current_slot_start, slot_end) ==
    LET hits == {i \in 1..Len(busy_slots) :
                    IsBusyWith(current_slot_start, slot_end,
                               busy_slots[i][1], busy_slots[i][2])}
    IN  IF hits = {} THEN 0 ELSE CHOOSE i \in hits : \A j \in hits : i <= j

\* line 367: where the scan resumes after a conflict
JumpPastQuarter(current_slot_start, b_end) == b_end + 15

JumpByStep(current_slot_start, b_end) == current_slot_start + 30

Jump(current_slot_start, b_end) == b_end

\* lines 358-375: the scan of one day: the candidate starts probed, in order,
\* and the slot found (<<>>: the day has none)
RECURSIVE ScanDay(_, _, _, _)
ScanDay(busy_slots, current_slot_start, duration_minutes, probed) ==
    IF current_slot_start + duration_minutes <= work_end
    THEN LET slot_end == current_slot_start + duration_minutes
             hit == FirstConflict(busy_slots, current_slot_start, slot_end)
         IN  IF hit = 0
             THEN [slot |-> <<current_slot_start, slot_end>>,
                   probed |-> Append(probed, current_slot_start)]
             ELSE ScanDay(busy_slots, Jump(current_slot_start, busy_slots[hit][2]),
                          duration_minutes, Append(probed, current_slot_start))
    ELSE [slot |-> <<>>, probed |-> probed]

\* lines 337-389: the days of the window in order
RECURSIVE ScanDays(_, _, _, _)
ScanDays(user_events, start_date, duration_minutes, i) ==
    IF i >= range_days THEN [kind |-> "None"]
    ELSE LET check_date == start_date + i
             day == ScanDay(BusySlots(user_events, check_date), work_start,
                            duration_minutes, <<>>)
         IN  IF day.slot # <<>>
             THEN [kind |-> "slot",
                   date |-> IsoFormat(check_date),
                   startTime |-> StrfTime(day.slot[1]),
                   endTime |-> StrfTime(day.slot[2])]
             ELSE ScanDays(user_events, start_date, duration_minutes, i + 1)

\* lines 313-389: a slot, None, the TypeError of line 319 or the ValueError
\* of line 330
find_available_slot(db_events, user_id, start_date_str, duration_str) ==
    LET duration_minutes == ParseDuration(duration_str)
    IN  IF ~OkParseDuration(duration_str) THEN [kind |-> "TypeError"]
        ELSE IF ~OkFromIsoFormat(start_date_str) THEN [kind |-> "ValueError"]
        ELSE ScanDays(get_events_by_user(db_events, user_id),
                      FromIsoFormat(start_date_str), duration_minutes, 0)

(***************************************************************************)
(* The event matcher of ChatService.process_message (lines 215-242)        *)
(***************************************************************************)
\* str.lower() on the letters of the model
LowerChar(c) ==
    CASE c = "G" -> "g" [] c = "Y" -> "y" [] c = "M" -> "m" [] c = "A" -> "a"
      [] c = "W" -> "w" [] OTHER -> c

Lower(s) == [i \in 1..Len(s) |-> LowerChar(s[i])]

\* needle in hay, for text
IsSubstring(needle, hay) ==
    \E i \in 1..(Len(hay) - Len(needle) + 1) :
        SubSeq(hay, i, i + Len(needle) - 1) = needle

\* the truth value of a text or of None
Truthy(x) == x # None /\ x # <<>>

\* line 225: title_query and title_query in e.title.lower()
TitleMatchesCaseSensitive(title_query, e) ==
    Truthy(title_query) /\ IsSubstring(title_query, e.title)

TitleMatches(title_query, e) ==
    Truthy(title_query) /\ IsSubstring(title_query, Lower(e.title))

\* lines 223-230: the candidates, in the order of user_events
CandidatesIgnoringDate(user_events, title_query, date_query) ==
    SelectSeq(user_events, LAMBDA e : TitleMatches(title_query, e))

Candidates(user_events, title_query, date_query) ==
    LET by_title == SelectSeq(user_events, LAMBDA e : TitleMatches(title_query, e))
    IN  IF Truthy(date_query) /\ by_title # <<>>
        THEN SelectSeq(by_title, LAMBDA c : IsoFormat(c.date) = date_query)
        ELSE by_title

\* lines 234-239: the matched event (<<>>: none)
PickMatch(candidates) ==
    IF Len(candidates) = 1 THEN <<candidates[1]>>
    ELSE IF Len(candidates) > 1 THEN <<candidates[1]>>
    ELSE <<>>

\* lines 217-239 for a search_criteria whose title_keyword is a text
MatchEvent(user_events, title_keyword, date_query) ==
    PickMatch(Candidates(user_events, Lower(title_keyword), date_query))

(***************************************************************************)
(* The extraction output: the document json.loads returns (lines 131-136). *)
(* A value of a key is a text, a date or time string, a JSON literal, None *)
(* (null) or Missing (the key is absent).  An object carries json =        *)
(* "object"; a null or absent object keeps the shape, its json says which. *)
(***************************************************************************)
Missing == <<"Missing">>
JTrue == <<"true">>
JFalse == <<"false">>

\* d.get(k)
Get(v) == IF v = Missing THEN None ELSE v

\* d.get(k, default)
GetDefault(v, default) == IF v = Missing THEN default ELSE v

\* the truth value of a JSON value
JsonTruthy(v) == v \notin {Missing, None, <<>>, JFalse, JNumber("0")}

\* a or b
PyOr(a, b) == IF JsonTruthy(a) THEN a ELSE b

\* an object is falsy when it is null or has no key
EntityKeys ==
    {"title", "date", "startTime", "endTime", "category_name", "name", "duration",
     "is_recurring", "auto_schedule", "time_range_start", "time_range_end",
     "due_date", "date_range_start", "date_range_end"}

NoEntities == [k \in EntityKeys \cup {"json"} |-> IF k = "json" THEN "missing" ELSE Missing]

ObjectTruthy(o) == o["json"] = "object" /\ \E k \in EntityKeys : o[k] # Missing

\* the next primary key of a table
MaxId(rows) ==
    IF rows = <<>> THEN 0
    ELSE CHOOSE m \in {rows[i].id : i \in 1..Len(rows)} :
            \A i \in 1..Len(rows) : rows[i].id <= m

(***************************************************************************)
(* ChatResponse and the persistence services                               *)
(***************************************************************************)
NoData == [json |-> "null"]

ChatResponse(response, action_taken, data) ==
    [response |-> response, action_taken |-> action_taken, data |-> data]

\* lines 305-310: the except branch of process_message
ErrorResponse == ChatResponse([kind |-> "error"], "error", NoData)

NotRun == [kind |-> "not_run"]

\* what the tail of process_message leaves: the store, the response, the
\* result of the slot finder and of the matcher, the collaborator that failed
Outcome(db, resp, slot, matched, failed) ==
    [db |-> db, resp |-> resp, slot |-> slot, matched |-> matched, failed |-> failed]

\* line 184: the response text, with the sentence naming the slot appended
\* when a slot was found
Said(response_text, slot) ==
    [kind |-> "text", text |-> response_text,
     scheduled |-> IF slot.kind = "slot"
                   THEN <<slot.date, slot.startTime, slot.endTime>> ELSE <<>>]

\* ChatResponse(response=response_text, ...): response is a required str, so
\* a None raises a ValidationError inside the try block
Respond(db, response_text, action_taken, data, slot, matched) ==
    IF response_text = None
    THEN Outcome(db, ErrorResponse, slot, matched, "none")
    ELSE Outcome(db, ChatResponse(Said(response_text, slot), action_taken, data),
                 slot, matched, "none")

\* EventService.create_event returns (lines 19-21 parse; otherwise it rolls
\* back and raises InternalServerException)
OkCreateEvent(date, startTime, endTime) ==
    OkStrpDate(date) /\ OkStrpTime(startTime) /\ OkStrpTime(endTime)

EventRow(rows, user_id, title, date, startTime, endTime, category_id) ==
    [id |-> MaxId(rows) + 1, user_id |-> user_id, title |-> title,
     date |-> StrpDate(date), start_time |-> StrpTime(startTime),
     end_time |-> StrpTime(endTime), category_id |-> category_id]

\* EventService.delete_event, the event found
DeleteRowsOfUser(rows, event_id, user_id) ==
    SelectSeq(rows, LAMBDA e : e.user_id # user_id)

DeleteRow(rows, event_id, user_id) ==
    SelectSeq(rows, LAMBDA e : ~(e.id = event_id /\ e.user_id = user_id))

\* EventService.update_event returns: every value given parses
OkUpdateEvent(u) ==
    /\ u.date # None => OkStrpDate(u.date)
    /\ u.startTime # None => OkStrpTime(u.startTime)
    /\ u.endTime # None => OkStrpTime(u.endTime)

\* EventService.update_event, lines 51-66: only the values given overwrite
UpdatedRow(e, u) ==
    [e EXCEPT !.title = IF u.title # None THEN u.title ELSE @,
              !.date = IF u.date # None THEN StrpDate(u.date) ELSE @,
              !.start_time = IF u.startTime # None THEN StrpTime(u.startTime) ELSE @,
              !.end_time = IF u.endTime # None THEN StrpTime(u.endTime) ELSE @,
              !.category_id = IF u.category_id # 0 THEN u.category_id ELSE @]

UpdateRow(rows, event_id, user_id, u) ==
    [i \in 1..Len(rows) |->
        IF rows[i].id = event_id /\ rows[i].user_id = user_id
        THEN UpdatedRow(rows[i], u) ELSE rows[i]]

\* CategoryService.create_category, line 21: a category of exactly this name
NameTaken(rows, name) == \E i \in 1..Len(rows) : rows[i].name = name

(***************************************************************************)
(* ChatService.process_message, lines 131-310: from the parsed document to *)
(* the response.  fail names the collaborator call that raises if reached. *)
(* A category_id of 0 is None.                                             *)
(***************************************************************************)
TodayStr == IsoFormat(0)

\* str(x).lower() at line 144
StrLower(x) == IF x = None THEN <<"n", "o", "n", "e">> ELSE Lower(x)

\* lines 144 and 160: the first category of the snapshot with this name
FindCategory(known, lowered) ==
    LET hits == {i \in 1..Len(known) : Lower(known[i].name) = lowered}
    IN  IF hits = {} THEN 0
        ELSE known[CHOOSE i \in hits : \A j \in hits : i <= j].id

\* lines 142-155
CreateCategory(db, known, cat_name, response_text, fail) ==
    IF FindCategory(known, StrLower(cat_name)) # 0
    THEN Outcome(db, ChatResponse([kind |-> "already_exists", name |-> cat_name],
                                  "None", NoData), NotRun, NotRun, "none")
    ELSE IF cat_name = None
    THEN Outcome(db, ErrorResponse, NotRun, NotRun, "none")
    ELSE IF fail = "create_category"
    THEN Outcome(db, ErrorResponse, NotRun, NotRun, "create_category")
    ELSE IF NameTaken(db.categories, cat_name)
    THEN Outcome(db, ErrorResponse, NotRun, NotRun, "none")
    ELSE LET new_cat == [id |-> MaxId(db.categories) + 1, name |-> cat_name]
         IN  Respond([db EXCEPT !.categories = Append(@, new_cat)], response_text,
                     "create_category",
                     [json |-> "object", id |-> new_cat.id, name |-> new_cat.name],
                     NotRun, NotRun)

\* line 166: whether the slot finder runs
AutoScheduleByFlagOrHint(entities) ==
    \/ JsonTruthy(entities.auto_schedule)
    \/ /\ ~JsonTruthy(entities.startTime) /\ ~JsonTruthy(entities.endTime)
       /\ JsonTruthy(entities.time_range_start) \/ JsonTruthy(entities.time_range_end)

AutoSchedule(entities) == JsonTruthy(entities.auto_schedule)

\* lines 186-198: validate, persist, answer
PersistEvent(db, user_id, entities, category_id, text, slot, fail) ==
    LET title == Get(entities.title)
        date == Get(entities.date)
        startTime == Get(entities.startTime)
        endTime == Get(entities.endTime)
    IN  IF \/ None \in {title, date, startTime, endTime}
           \/ GetDefault(entities.is_recurring, JFalse) \notin {JTrue, JFalse}
           \/ IsJNumber(Get(entities.duration))
        THEN Outcome(db, ErrorResponse, slot, NotRun, "none")
        ELSE IF ~OkCreateEvent(date, startTime, endTime)
        THEN Outcome(db, ErrorResponse, slot, NotRun, "none")
        ELSE IF fail = "create_event"
        THEN Outcome(db, ErrorResponse, slot, NotRun, "create_event")
        ELSE Respond([db EXCEPT !.events = Append(@,
                         EventRow(db.events, user_id, title, date, startTime,
                                  endTime, category_id))],
                     text, "create_event", NoData, slot, NotRun)

\* lines 164-198
CreateEvent(db, user_id, entities, category_id, response_text, fail) ==
    IF ~AutoSchedule(entities)
    THEN PersistEvent(db, user_id, entities, category_id, response_text, NotRun, fail)
    ELSE LET range_or_date == PyOr(Get(entities.time_range_start), Get(entities.date))
             search_start == IF JsonTruthy(range_or_date) THEN range_or_date ELSE TodayStr
             duration == GetDefault(entities.duration, <<"1", "h">>)
             slot == IF fail = "list_events" THEN [kind |-> "raised"]
                     ELSE find_available_slot(db.events, user_id, search_start, duration)
         IN  IF slot.kind = "raised"
             THEN Outcome(db, ErrorResponse, slot, NotRun, "list_events")
             ELSE IF slot.kind \in {"TypeError", "ValueError"}
             THEN Outcome(db, ErrorResponse, slot, NotRun, "none")
             ELSE IF slot.kind = "None"
             THEN Outcome(db, ChatResponse([kind |-> "no_slot", start |-> search_start,
                                            duration |-> duration], "None", NoData),
                          slot, NotRun, "none")
             ELSE IF response_text = None
             THEN Outcome(db, ErrorResponse, slot, NotRun, "none")
             ELSE PersistEvent(db, user_id,
                               [entities EXCEPT !.date = slot.date,
                                                !.startTime = slot.startTime,
                                                !.endTime = slot.endTime],
                               category_id, response_text, slot, fail)

\* lines 200-210
CreateTodo(db, user_id, entities, category_id, response_text, fail) ==
    LET title == Get(entities.title)
        due_date == Get(entities.due_date)
    IN  IF title = None
        THEN Outcome(db, ErrorResponse, NotRun, NotRun, "none")
        ELSE IF JsonTruthy(due_date) /\ ~OkStrpDate(due_date)
        THEN Outcome(db, ErrorResponse, NotRun, NotRun, "none")
        ELSE IF fail = "create_todo"
        THEN Outcome(db, ErrorResponse, NotRun, NotRun, "create_todo")
        ELSE Respond([db EXCEPT !.todos = Append(@,
                         [id |-> MaxId(db.todos) + 1, user_id |-> user_id,
                          title |-> title,
                          due_date |-> IF JsonTruthy(due_date)
                                       THEN <<StrpDate(due_date)>> ELSE <<>>,
                          category_id |-> category_id])],
                     response_text, "create_todo", NoData, NotRun, NotRun)

\* lines 253-268: the EventUpdateSchema built from updates or entities
UpdateData(updates, category_id) ==
    [title |-> Get(updates.title), date |-> Get(updates.date),
     startTime |-> Get(updates.startTime), endTime |-> Get(updates.endTime),
     category_id |-> category_id]

\* lines 212-268
UpdateOrDelete(db, user_id, parsed, entities, category_id, response_text, fail) ==
    LET search_criteria == parsed.search_criteria
        keyword == GetDefault(search_criteria.title_keyword, <<>>)
    IN  IF fail = "list_events"
        THEN Outcome(db, ErrorResponse, NotRun, NotRun, "list_events")
        ELSE IF search_criteria.json = "null" \/ keyword = None
        THEN Outcome(db, ErrorResponse, NotRun, NotRun, "none")
        ELSE
        LET title_query == Lower(keyword)
            date_query == Get(search_criteria.date)
            matched == MatchEvent(get_events_by_user(db.events, user_id),
                                  keyword, date_query)
            found == [kind |-> "match", matched |-> matched]
        IN  IF matched = <<>>
            THEN Outcome(db, ChatResponse([kind |-> "clarify", title_query |-> title_query,
                                           date_query |-> date_query], "None", NoData),
                         NotRun, found, "none")
            ELSE IF parsed.intent = "delete_event"
            THEN IF fail = "delete_event"
                 THEN Outcome(db, ErrorResponse, NotRun, found, "delete_event")
                 ELSE Respond([db EXCEPT !.events = DeleteRow(@, matched[1].id, user_id)],
                              response_text, "delete_event", NoData, NotRun, found)
            ELSE LET updates == IF ObjectTruthy(parsed.updates)
                                THEN parsed.updates ELSE entities
                     update_data == UpdateData(updates, category_id)
                 IN  IF fail = "update_event"
                     THEN Outcome(db, ErrorResponse, NotRun, found, "update_event")
                     ELSE IF ~OkUpdateEvent(update_data)
                     THEN Outcome(db, ErrorResponse, NotRun, found, "none")
                     ELSE Respond([db EXCEPT !.events =
                                      UpdateRow(@, matched[1].id, user_id, update_data)],
                                  response_text, "update_event", NoData, NotRun, found)

\* str <= str on date strings, character by character.  The days of the model
\* lie in one month with a one-digit number: two zero-padded strings compare as
\* their days; an unpadded string (2024-3-1) is larger than every padded one
\* (2024-03-..) at the month, and two unpadded strings of one-digit days compare
\* as their days; a text that is no date starts with a letter and is larger
\* than both.
StrRank(s) == CASE s[1] = "iso" -> 0 [] s[1] = "loose" -> 1 [] OTHER -> 2

StrLeq(a, b) ==
    \/ StrRank(a) < StrRank(b)
    \/ StrRank(a) = StrRank(b) /\ (StrRank(a) = 2 \/ a[2] <= b[2])

InRangeBeforeEnd(e, start_date_str, end_date_str) ==
    /\ StrLeq(start_date_str, IsoFormat(e.date))
    /\ StrLeq(IsoFormat(e.date), end_date_str)
    /\ IsoFormat(e.date) # end_date_str

\* line 289: start_date_str <= str(e.date) <= end_date_str
InRange(e, start_date_str, end_date_str) ==
    /\ StrLeq(start_date_str, IsoFormat(e.date))
    /\ StrLeq(IsoFormat(e.date), end_date_str)

\* line 296: sorted(key=(date, start_time)), a stable sort
RECURSIVE InsertByDateTime(_, _)
InsertByDateTime(sorted, e) ==
    IF sorted = <<>> THEN <<e>>
    ELSE LET last == sorted[Len(sorted)]
         IN  IF \/ last.date < e.date
                \/ last.date = e.date /\ last.start_time <= e.start_time
             THEN Append(sorted, e)
             ELSE Append(InsertByDateTime(SubSeq(sorted, 1, Len(sorted) - 1), e), last)

RECURSIVE SortByDateTime(_)
SortByDateTime(s) ==
    IF s = <<>> THEN <<>>
    ELSE InsertByDateTime(SortByDateTime(SubSeq(s, 1, Len(s) - 1)), s[Len(s)])

\* lines 270-300
QueryCalendar(db, user_id, entities, fail) ==
    LET given == PyOr(Get(entities.date_range_start), Get(entities.date))
        start_date_str == IF JsonTruthy(given) THEN given ELSE TodayStr
        end_date_str == IF JsonTruthy(Get(entities.date_range_end))
                        THEN entities.date_range_end ELSE start_date_str
    IN  IF fail = "list_events"
        THEN Outcome(db, ErrorResponse, NotRun, NotRun, "list_events")
        ELSE LET relevant_events ==
                     SelectSeq(get_events_by_user(db.events, user_id),
                               LAMBDA e : InRange(e, start_date_str, end_date_str))
                 ordered == SortByDateTime(relevant_events)
             IN  Outcome(db,
                    ChatResponse(
                        IF relevant_events = <<>>
                        THEN [kind |-> "no_events", start |-> start_date_str,
                              end |-> end_date_str]
                        ELSE [kind |-> "schedule", start |-> start_date_str,
                              end |-> end_date_str,
                              lines |-> [i \in 1..Len(ordered) |->
                                           <<IsoFormat(ordered[i].date),
                                             StrfTime(ordered[i].start_time),
                                             ordered[i].title>>]],
                        "None", NoData),
                    NotRun, NotRun, "none")

\* lines 131-310
Dispatch(db, user_id, known, parsed, fail) ==
    IF parsed.entities.json = "null"
    THEN Outcome(db, ErrorResponse, NotRun, NotRun, "none")
    ELSE
    LET intent == parsed.intent
        entities == parsed.entities
        response_text == GetDefault(parsed.response_text, <<"D", "o", "n", "e", ".">>)
        cat_name == PyOr(Get(entities.category_name), Get(entities.name))
        category_id == IF JsonTruthy(cat_name) /\ intent # "create_category"
                       THEN FindCategory(known, Lower(cat_name)) ELSE 0
    IN  IF intent = "create_category"
        THEN CreateCategory(db, known, cat_name, response_text, fail)
        ELSE IF intent = "create_event"
        THEN CreateEvent(db, user_id, entities, category_id, response_text, fail)
        ELSE IF intent = "create_todo"
        THEN CreateTodo(db, user_id, entities, category_id, response_text, fail)
        ELSE IF intent \in {"update_event", "delete_event"}
        THEN UpdateOrDelete(db, user_id, parsed, entities, category_id, response_text, fail)
        ELSE IF intent = "query_calendar"
        THEN QueryCalendar(db, user_id, entities, fail)
        ELSE Respond(db, response_text, "None", NoData, NotRun, NotRun)

Idle == call.op = "idle"

(***************************************************************************)
(* The slot finder on its own: calendars are built event by event, then    *)
(* find_available_slot is called once.                                     *)
(***************************************************************************)
\* Days on which events are added freely; the days after them can only be
\* booked for the whole of the working hours.
EventDays == {0, 1}
EventStarts == {540, 600}
EventEnds == {540, 600, 1020}

DurationStrs ==
    {None, <<"1", "h">>, <<"8", "h">>, <<"0", ".", "5", "h">>, <<"0", "m">>,
     <<"-", "1", "0", "h">>, <<"9", "0", "m">>, <<"s", "o", "o", "n">>,
     JNumber("0"), JNumber("90")}

StartDateStrs == {IsoFormat(0), IsoFormat(1), <<"junk">>}

NewEvent(user_id, title, date, start_time, end_time) ==
    [id |-> MaxId(events) + 1, user_id |-> user_id, title |-> title, date |-> date,
     start_time |-> start_time, end_time |-> end_time, category_id |-> 0]

FreeEvents == SelectSeq(events, LAMBDA e : e.user_id = "alice" /\ e.date \in EventDays)
BlockEvents == SelectSeq(events, LAMBDA e : e.date \notin EventDays)

\* another user is busy for the whole of day 0
SlotInit ==
    /\ events = <<[id |-> 1, user_id |-> "bob", title |-> <<"G">>, date |-> 0,
                   start_time |-> work_start, end_time |-> work_end,
                   category_id |-> 0]>>
    /\ categories = <<>>
    /\ todos = <<>>
    /\ call = [op |-> "idle"]
    /\ ret = [kind |-> "idle"]

\* an event of the commanding user on one of the first days
SlotAddEvent ==
    /\ Idle
    /\ Len(BlockEvents) = 0
    /\ Len(FreeEvents) < MaxEvents
    /\ \E d \in EventDays, s \in EventStarts, e \in EventEnds :
          events' = Append(events, NewEvent("alice", <<"G">>, d, s, e))
    /\ UNCHANGED <<categories, todos, call, ret>>

\* the next later day is booked from 09:00 to 17:00
SlotBookDay ==
    /\ Idle
    /\ Len(BlockEvents) < range_days
    /\ events' = Append(events, NewEvent("alice", <<"G">>,
                         Cardinality(EventDays) + Len(BlockEvents), work_start, work_end))
    /\ UNCHANGED <<categories, todos, call, ret>>

SlotCall ==
    /\ Idle
    /\ \E sd \in StartDateStrs, du \in DurationStrs :
          /\ call' = [op |-> "find_available_slot", user_id |-> "alice",
                      start_date_str |-> sd, duration_str |-> du]
          /\ ret' = find_available_slot(events, "alice", sd, du)
    /\ UNCHANGED <<events, categories, todos>>

SlotNext == SlotAddEvent \/ SlotBookDay \/ SlotCall

SlotSpec == SlotInit /\ [][SlotNext]_vars

\* the same without the fully booked later days: every order of the events
\* of the first days is a calendar of this specification
OrderNext == SlotAddEvent \/ SlotCall

OrderSpec == SlotInit /\ [][OrderNext]_vars

(***************************************************************************)
(* The event matcher on its own: a list of the user's events is built,     *)
(* then the matcher is called once.                                        *)
(***************************************************************************)
Titles == {<<"G", "y", "m">>, <<"m", "y">>, <<"A", "g", "Y", "M">>}
Keywords == {<<>>, <<"g", "y", "m">>, <<"G", "Y">>, <<"m">>, <<"a", "m">>}
DateQueries == {None, <<>>, IsoFormat(0), IsoFormat(1), <<"loose", 0>>}

MatchInit ==
    /\ events = <<>>
    /\ categories = <<>>
    /\ todos = <<>>
    /\ call = [op |-> "idle"]
    /\ ret = [kind |-> "idle"]

MatchAddEvent ==
    /\ Idle
    /\ Len(events) < MaxEvents
    /\ \E t \in Titles, d \in EventDays :
          events' = Append(events, NewEvent("alice", t, d, work_start, work_end))
    /\ UNCHANGED <<categories, todos, call, ret>>

MatchCall ==
    /\ Idle
    /\ \E k \in Keywords, dq \in DateQueries :
          /\ call' = [op |-> "match", title_keyword |-> k, date |-> dq]
          /\ ret' = [kind |-> "match", matched |-> MatchEvent(events, k, dq)]
    /\ UNCHANGED <<events, categories, todos>>

MatchNext == MatchAddEvent \/ MatchCall

MatchSpec == MatchInit /\ [][MatchNext]_vars

(***************************************************************************)
(* The overlap check of the scan on its own: one candidate slot is tested  *)
(* against one busy slot, as the loop of lines 361-368 does.               *)
(***************************************************************************)
\* the ends of the intervals: every half hour from 09:00 to 11:00
IntervalEnds == {work_start + 30 * k : k \in 0..4}

OverlapInit ==
    /\ events = <<>>
    /\ categories = <<>>
    /\ todos = <<>>
    /\ call = [op |-> "idle"]
    /\ ret = [kind |-> "idle"]

OverlapCall ==
    /\ Idle
    /\ \E current_slot_start, slot_end, b_start, b_end \in IntervalEnds :
          /\ current_slot_start <= slot_end
          /\ b_start <= b_end
          /\ call' = [op |-> "is_busy", current_slot_start |-> current_slot_start,
                      slot_end |-> slot_end, b_start |-> b_start, b_end |-> b_end]
          /\ ret' = [kind |-> "is_busy",
                     is_busy |-> IsBusyWith(current_slot_start, slot_end, b_start, b_end)]
    /\ UNCHANGED <<events, categories, todos>>

OverlapNext == OverlapCall

OverlapSpec == OverlapInit /\ [][OverlapNext]_vars

(***************************************************************************)
(* The command pipeline: events and categories are created over REST, and  *)
(* one chat command is followed from its receipt to its response.  The     *)
(* extraction call is awaited, so other requests run between the category  *)
(* snapshot (line 31) and the dispatch (lines 131-310).                    *)
(***************************************************************************)
Gym == <<"G", "y", "m">>
OkText == <<"o", "k">>
NineOClock == StrfTime(work_start)
TenOClock == StrfTime(work_start + 60)

\* the requests POST /api/events receives
RestEvents ==
    {[user_id |-> "alice", date |-> IsoFormat(0), startTime |-> NineOClock,
      endTime |-> StrfTime(work_end)],
     [user_id |-> "alice", date |-> IsoFormat(0), startTime |-> NineOClock,
      endTime |-> TenOClock],
     [user_id |-> "bob", date |-> IsoFormat(0), startTime |-> NineOClock,
      endTime |-> StrfTime(work_end)]}

CategoryNames == {<<"W">>, <<"w">>}

\* the outcomes of the calls that can raise before the dispatch
Failures ==
    {"none", "list_events", "create_event", "update_event", "delete_event",
     "create_todo", "create_category"}

Entities(title, date, times, auto_schedule, range, duration) ==
    [NoEntities EXCEPT !.json = "object", !.title = title, !.date = date,
                       !.startTime = times[1], !.endTime = times[2],
                       !.auto_schedule = auto_schedule,
                       !.time_range_start = range[1], !.time_range_end = range[2],
                       !.duration = duration]

NoCriteria == [json |-> "missing", title_keyword |-> Missing, date |-> Missing]

Criteria(title_keyword, date) ==
    [json |-> "object", title_keyword |-> title_keyword, date |-> date]

Parsed(intent, entities, search_criteria, updates, response_text) ==
    [intent |-> intent, entities |-> entities, search_criteria |-> search_criteria,
     updates |-> updates, response_text |-> response_text]

CreateEventOutputs ==
    {Parsed("create_event", Entities(t, d, tm, a, r, du), NoCriteria, NoEntities, rt) :
        t \in {Missing, Gym}, d \in {Missing, IsoFormat(1)},
        tm \in {<<Missing, Missing>>, <<NineOClock, TenOClock>>},
        a \in {Missing, JTrue},
        r \in {<<Missing, Missing>>, <<IsoFormat(0), IsoFormat(0)>>,
               <<IsoFormat(1), Missing>>},
        du \in {Missing, <<"9", "h">>}, rt \in {None, OkText}}

\* create_event commands to be scheduled, whose duration is a number
NumericDurationOutputs ==
    {Parsed("create_event",
            Entities(Gym, Missing, <<Missing, Missing>>, JTrue,
                     <<IsoFormat(1), Missing>>, du),
            NoCriteria, NoEntities, OkText) :
        du \in {JNumber("0"), JNumber("90")}}

\* create_event commands that name a category
CategorizedEventOutputs ==
    {Parsed("create_event",
            [Entities(Gym, IsoFormat(1), <<NineOClock, TenOClock>>, Missing,
                      <<Missing, Missing>>, Missing) EXCEPT !.category_name = c],
            NoCriteria, NoEntities, rt) :
        c \in CategoryNames, rt \in {None, OkText}}

SearchCriteria ==
    {NoCriteria, [NoCriteria EXCEPT !.json = "null"],
     Criteria(Missing, Missing), Criteria(None, Missing),
     Criteria(<<"G", "Y">>, Missing), Criteria(<<"m", "y">>, Missing),
     Criteria(<<"g", "y", "m">>, IsoFormat(0)),
     Criteria(<<"g", "y", "m">>, IsoFormat(1))}

UpdateObjects ==
    {NoEntities, [NoEntities EXCEPT !.json = "object", !.startTime = TenOClock]}

UpdateEntities ==
    {[NoEntities EXCEPT !.json = "object"],
     [NoEntities EXCEPT !.json = "object", !.date = IsoFormat(1)],
     [NoEntities EXCEPT !.json = "object", !.category_name = <<"w">>]}

UpdateOutputs ==
    {Parsed("update_event", e, sc, u, rt) :
        e \in UpdateEntities, sc \in SearchCriteria, u \in UpdateObjects,
        rt \in {None, OkText}}

DeleteOutputs ==
    {Parsed("delete_event", [NoEntities EXCEPT !.json = "object"], sc, NoEntities, rt) :
        sc \in SearchCriteria, rt \in {None, OkText}}

TodoOutputs ==
    {Parsed("create_todo",
            [NoEntities EXCEPT !.json = "object", !.title = t, !.due_date = dd,
                               !.category_name = c],
            NoCriteria, NoEntities, OkText) :
        t \in {Missing, Gym}, dd \in {Missing, IsoFormat(0), <<"junk">>},
        c \in {Missing} \cup CategoryNames}

\* a create_todo command whose response_text is null
NullTextTodoOutputs ==
    {Parsed("create_todo", [NoEntities EXCEPT !.json = "object", !.title = Gym],
            NoCriteria, NoEntities, None)}

CategoryOutputs ==
    {Parsed("create_category", [NoEntities EXCEPT !.json = "object", !.name = n],
            NoCriteria, NoEntities, rt) :
        n \in {Missing} \cup CategoryNames, rt \in {None, OkText}}

QueryOutputs ==
    {Parsed("query_calendar", e, NoCriteria, NoEntities, OkText) :
        e \in {NoEntities,
               [NoEntities EXCEPT !.json = "object", !.date_range_start = IsoFormat(0),
                                  !.date_range_end = IsoFormat(1)]}}

OtherOutputs ==
    {Parsed("unknown", NoEntities, NoCriteria, NoEntities, rt) :
        rt \in {Missing, None, OkText}}
    \cup {Parsed("create_event", [NoEntities EXCEPT !.json = "null"], NoCriteria,
                 NoEntities, OkText)}

\* the documents the extraction step can answer with
ParsedOutputs ==
    CreateEventOutputs \cup NumericDurationOutputs \cup CategorizedEventOutputs
    \cup UpdateOutputs \cup DeleteOutputs \cup TodoOutputs \cup NullTextTodoOutputs
    \cup CategoryOutputs \cup QueryOutputs \cup OtherOutputs

NoParsed == Parsed("none", NoEntities, NoCriteria, NoEntities, Missing)

Awaiting == call.op = "process_message" /\ call.pc = "await"

Db == [events |-> events, categories |-> categories, todos |-> todos]

Init ==
    /\ events = <<>>
    /\ categories = <<>>
    /\ todos = <<>>
    /\ call = [op |-> "idle"]
    /\ ret = [kind |-> "idle"]

\* POST /api/events: EventService.create_event
RestCreateEvent ==
    /\ Idle \/ Awaiting
    /\ Len(events) < MaxEvents
    /\ \E r \in RestEvents :
          /\ OkCreateEvent(r.date, r.startTime, r.endTime)
          /\ events' = Append(events, EventRow(events, r.user_id, Gym, r.date,
                                               r.startTime, r.endTime, 0))
    /\ UNCHANGED <<categories, todos, call, ret>>

\* POST /api/categories
RestCreateCategory ==
    /\ Idle \/ Awaiting
    /\ \E name \in CategoryNames :
          /\ ~NameTaken(categories, name)
          /\ categories' = Append(categories,
                                  [id |-> MaxId(categories) + 1, name |-> name])
    /\ UNCHANGED <<events, todos, call, ret>>

Finished(step, known, parsed, outcome) ==
    /\ call' = [op |-> "process_message", pc |-> "done", step |-> step,
                parsed |-> parsed, before |-> Db, snapshot |-> known]
    /\ ret' = outcome

\* lines 22-32: the key is read and the categories are listed
ChatStart ==
    /\ Idle
    /\ \/ /\ Finished("api_key", <<>>, NoParsed,
                      [kind |-> "response",
                       out |-> Outcome(Db, ChatResponse([kind |-> "missing_key"],
                                                        "error", NoData),
                                       NotRun, NotRun, "none")])
       \/ /\ Finished("list_categories", <<>>, NoParsed, [kind |-> "raised"])
       \/ /\ call' = [op |-> "process_message", pc |-> "await", step |-> "llm",
                      parsed |-> NoParsed, before |-> Db, snapshot |-> categories]
          /\ ret' = ret
    /\ UNCHANGED <<events, categories, todos>>

\* lines 104-131: the extraction call raises, or its answer is not JSON
ChatExtractionFallsBack ==
    /\ Awaiting
    /\ todos' = Append(todos, [id |-> MaxId(todos) + 1, user_id |-> "alice",
                               title |-> Gym, due_date |-> <<>>, category_id |-> 0])
    /\ Finished("llm", call.snapshot, NoParsed,
                [kind |-> "response",
                 out |-> Outcome(Db, ErrorResponse, NotRun, NotRun, "llm")])
    /\ UNCHANGED <<events, categories>>

ChatExtractionFails ==
    /\ Awaiting
    /\ Finished("llm", call.snapshot, NoParsed,
                [kind |-> "response",
                 out |-> Outcome(Db, ErrorResponse, NotRun, NotRun, "llm")])
    /\ UNCHANGED <<events, categories, todos>>

\* lines 131-310: the answer is dispatched
ChatComplete ==
    /\ Awaiting
    /\ \E parsed \in ParsedOutputs, fail \in Failures :
          LET out == Dispatch(Db, "alice", call.snapshot, parsed, fail)
          IN  /\ fail # "none" => out.failed = fail
              /\ events' = out.db.events
              /\ categories' = out.db.categories
              /\ todos' = out.db.todos
              /\ Finished("dispatch", call.snapshot, parsed, [kind |-> "response", out |-> out])

Next ==
    \/ RestCreateEvent
    \/ RestCreateCategory
    \/ ChatStart
    \/ ChatExtractionFails
    \/ ChatComplete

Spec == Init /\ [][Next]_vars

(***************************************************************************)
(* query_calendar on its own: events of two users are stored on three      *)
(* days, then one query_calendar command is dispatched.                    *)
(***************************************************************************)
QueryEntities ==
    {[NoEntities EXCEPT !.json = "object", !.date_range_start = s,
                        !.date_range_end = e, !.date = d] :
        s \in {Missing, None, IsoFormat(1), <<"loose", 1>>},
        e \in {Missing, IsoFormat(0), IsoFormat(1), IsoFormat(2), <<"loose", 1>>},
        d \in {Missing, IsoFormat(2)}}

QueryAddEvent ==
    /\ Idle
    /\ Len(events) < MaxEvents
    /\ \E u \in Users, d \in {0, 1, 2}, s \in EventStarts :
          events' = Append(events, NewEvent(u, <<"G">>, d, s, s + 60))
    /\ UNCHANGED <<categories, todos, call, ret>>

QueryCall ==
    /\ Idle
    /\ \E e \in QueryEntities \cup {NoEntities} :
          LET parsed == [intent |-> "query_calendar", entities |-> e,
                         search_criteria |-> [json |-> "missing",
                                              title_keyword |-> Missing,
                                              date |-> Missing],
                         updates |-> NoEntities,
                         response_text |-> <<"o", "k">>]
              out == Dispatch([events |-> events, categories |-> categories,
                               todos |-> todos], "alice", categories, parsed, "none")
          IN  /\ events' = out.db.events
              /\ categories' = out.db.categories
              /\ todos' = out.db.todos
              /\ call' = [op |-> "process_message", pc |-> "done", step |-> "dispatch",
                          parsed |-> parsed,
                          before |-> [events |-> events, categories |-> categories,
                                      todos |-> todos],
                          snapshot |-> categories]
              /\ ret' = [kind |-> "response", out |-> out]

QueryNext == QueryAddEvent \/ QueryCall

QuerySpec == Init /\ [][QueryNext]_vars

(***************************************************************************)
(* Auto-scheduled create_event commands one after the other: a calendar    *)
(* without overlaps is stored over REST, then each command runs to its end *)
(* before the next one starts.                                             *)
(***************************************************************************)
MaxCommands == 3    \* commands of one behaviour

BookDurations == {Missing, <<"1", "h">>, <<"0", ".", "5", "h">>, <<"8", "h">>,
                  <<"-", "1", "0", "h">>}

BookStarts == {Missing, IsoFormat(0), IsoFormat(1)}

\* events stored before the first command
BookedBefore ==
    {[user_id |-> "alice", start_time |-> 600, end_time |-> 660],
     [user_id |-> "alice", start_time |-> 540, end_time |-> 600],
     [user_id |-> "bob", start_time |-> 540, end_time |-> 1020]}

AutoScheduleOutput(start, duration) ==
    Parsed("create_event",
           Entities(Gym, Missing, <<Missing, Missing>>, JTrue, <<start, Missing>>,
                    duration),
           NoCriteria, NoEntities, OkText)

SameDayOverlap(a, b) ==
    /\ a.user_id = b.user_id
    /\ a.date = b.date
    /\ a.start_time < b.end_time /\ a.end_time > b.start_time

\* POST /api/events, for an event that overlaps none of its user
BookRestEvent ==
    /\ Idle
    /\ Len(events) < MaxEvents
    /\ \E r \in BookedBefore :
          LET e == NewEvent(r.user_id, Gym, 0, r.start_time, r.end_time)
          IN  /\ \A i \in 1..Len(events) : ~SameDayOverlap(e, events[i])
              /\ events' = Append(events, e)
    /\ UNCHANGED <<categories, todos, call, ret>>

\* process_message from its first line to its return
BookCommand ==
    /\ Idle \/ (call.op = "process_message" /\ call.pc = "done")
    /\ Len(events) < MaxEvents + MaxCommands
    /\ \E start \in BookStarts, duration \in BookDurations :
          LET parsed == AutoScheduleOutput(start, duration)
              out == Dispatch(Db, "alice", categories, parsed, "none")
          IN  /\ events' = out.db.events
              /\ categories' = out.db.categories
              /\ todos' = out.db.todos
              /\ Finished("dispatch", categories, parsed,
                          [kind |-> "response", out |-> out])

BookNext == BookRestEvent \/ BookCommand

BookSpec == Init /\ [][BookNext]_vars

(***************************************************************************)
(* Two auto-scheduled create_event commands of one user processed at the   *)
(* same time (two workers on one database): a command reads the events and *)
(* finds its slot in one step (lines 166-175) and stores its event in a    *)
(* later one (lines 186-197); nothing is locked in between.                *)
(***************************************************************************)
Commands == {1, 2}

RaceDurations == {<<"1", "h">>, <<"0", ".", "5", "h">>}

\* both extraction calls have returned
RaceStart ==
    /\ Idle
    /\ \E d1, d2 \in RaceDurations, s \in BookStarts :
          call' = [op |-> "two_commands",
                   pc |-> [c \in Commands |-> "find"],
                   parsed |-> <<AutoScheduleOutput(s, d1), AutoScheduleOutput(s, d2)>>,
                   slot |-> [c \in Commands |-> NotRun],
                   created |-> [c \in Commands |-> 0]]
    /\ UNCHANGED <<events, categories, todos, ret>>

Racing == call.op = "two_commands"

\* lines 166-184: the events are read and the slot is found
RaceFind(c) ==
    /\ Racing
    /\ call.pc[c] = "find"
    /\ LET entities == call.parsed[c].entities
           range_or_date == PyOr(Get(entities.time_range_start), Get(entities.date))
           search_start == IF JsonTruthy(range_or_date) THEN range_or_date ELSE TodayStr
           slot == find_available_slot(events, "alice", search_start,
                                       GetDefault(entities.duration, <<"1", "h">>))
       IN  call' = [call EXCEPT !.slot[c] = slot,
                                !.pc[c] = IF slot.kind = "slot" THEN "create" ELSE "done"]
    /\ UNCHANGED <<events, categories, todos, ret>>

\* lines 186-198: the event is stored at the slot found
RaceCreate(c) ==
    /\ Racing
    /\ call.pc[c] = "create"
    /\ LET slot == call.slot[c]
           entities == [call.parsed[c].entities EXCEPT !.date = slot.date,
                                                       !.startTime = slot.startTime,
                                                       !.endTime = slot.endTime]
           out == PersistEvent(Db, "alice", entities, 0,
                               call.parsed[c].response_text, slot, "none")
       IN  /\ events' = out.db.events
           /\ call' = [call EXCEPT !.pc[c] = "done", !.created[c] = MaxId(out.db.events)]
    /\ UNCHANGED <<categories, todos, ret>>

RaceNext ==
    \/ BookRestEvent
    \/ RaceStart
    \/ \E c \in Commands : RaceFind(c)
    \/ \E c \in Commands : RaceCreate(c)

RaceSpec == Init /\ [][RaceNext]_vars

(***************************************************************************)
(* Deleting categories: categories, events and todos are created over      *)
(* REST, and categories are deleted through CategoryService.delete_category*)
(* and through DELETE /api/categories/{id}.  A category row carries its    *)
(* stored usage_count here.                                                *)
(***************************************************************************)
CategoryIds == {1, 2}

\* len(category.events) + len(category.todos)
References(category_id) ==
    Cardinality({i \in 1..Len(events) : events[i].category_id = category_id})
    + Cardinality({i \in 1..Len(todos) : todos[i].category_id = category_id})

CategoryRow(category_id) ==
    CHOOSE c \in {categories[i] : i \in 1..Len(categories)} : c.id = category_id

CategoryExists(category_id) == \E i \in 1..Len(categories) : categories[i].id = category_id

\* db.delete(category): the relationships have no delete cascade, so the
\* session sets the category_id of the events and todos of the category to
\* NULL before it deletes the row
Nullified(rows, category_id) ==
    [i \in 1..Len(rows) |->
        IF rows[i].category_id = category_id
        THEN [rows[i] EXCEPT !.category_id = 0] ELSE rows[i]]

\* POST /api/categories (categories.py lines 28-64): usage_count = 0
DeleteAddCategory ==
    /\ \E name \in CategoryNames :
          /\ ~NameTaken(categories, name)
          /\ MaxId(categories) + 1 \in CategoryIds
          /\ categories' = Append(categories, [id |-> MaxId(categories) + 1,
                                               name |-> name, usage_count |-> 0])
    /\ call' = [op |-> "create_category"]
    /\ ret' = [kind |-> "created"]
    /\ UNCHANGED <<events, todos>>

\* EventService.create_event with the category_id of a stored category: the
\* usage_count of the category is not touched
DeleteAddEvent ==
    /\ Len(events) < MaxEvents
    /\ \E c \in CategoryIds :
          /\ CategoryExists(c)
          /\ events' = Append(events, [NewEvent("alice", Gym, 0, 540, 600)
                                          EXCEPT !.category_id = c])
    /\ call' = [op |-> "create_event"]
    /\ ret' = [kind |-> "created"]
    /\ UNCHANGED <<categories, todos>>

\* TodoService.create_todo with the category_id of a stored category
DeleteAddTodo ==
    /\ Len(todos) < MaxEvents
    /\ \E c \in CategoryIds :
          /\ CategoryExists(c)
          /\ todos' = Append(todos, [id |-> MaxId(todos) + 1, user_id |-> "alice",
                                     title |-> Gym, due_date |-> <<>>,
                                     category_id |-> c])
    /\ call' = [op |-> "create_todo"]
    /\ ret' = [kind |-> "created"]
    /\ UNCHANGED <<events, categories>>

DeleteCalled(via, category_id) ==
    call' = [op |-> "delete_category", via |-> via, category_id |-> category_id,
             references |-> References(category_id)]

DeleteCategoryRow(category_id) ==
    /\ categories' = SelectSeq(categories, LAMBDA c : c.id # category_id)
    /\ events' = Nullified(events, category_id)
    /\ todos' = Nullified(todos, category_id)

\* CategoryService.delete_category (category_service.py lines 84-103)
ServiceDeleteCategory ==
    \E category_id \in CategoryIds :
        /\ DeleteCalled("service", category_id)
        /\ IF ~CategoryExists(category_id)
           THEN /\ ret' = [kind |-> "NotFound"]
                /\ UNCHANGED <<events, categories, todos>>
           ELSE IF References(category_id) > 0
           THEN /\ ret' = [kind |-> "BadRequest"]
                /\ UNCHANGED <<events, categories, todos>>
           ELSE /\ ret' = [kind |-> "deleted"]
                /\ DeleteCategoryRow(category_id)

\* DELETE /api/categories/{id} (categories.py lines 124-152)
EndpointDeleteCategory ==
    \E category_id \in CategoryIds :
        /\ DeleteCalled("endpoint", category_id)
        /\ IF ~CategoryExists(category_id)
           THEN /\ ret' = [kind |-> "NotFound"]
                /\ UNCHANGED <<events, categories, todos>>
           ELSE IF CategoryRow(category_id).usage_count > 0
           THEN /\ ret' = [kind |-> "BadRequest"]
                /\ UNCHANGED <<events, categories, todos>>
           ELSE /\ ret' = [kind |-> "deleted"]
                /\ DeleteCategoryRow(category_id)

DeleteNext ==
    \/ DeleteAddCategory
    \/ DeleteAddEvent
    \/ DeleteAddTodo
    \/ ServiceDeleteCategory
    \/ EndpointDeleteCategory

DeleteSpec == Init /\ [][DeleteNext]_vars

(***************************************************************************)
(* Properties of the slot finder (SlotSpec).                               *)
(***************************************************************************)
SlotCalled == call.op = "find_available_slot"
SlotReturned == SlotCalled /\ ret.kind = "slot"

\* the returned slot, read back from the strings the function returns
SlotDay == FromIsoFormat(ret.date)
SlotStart == StrpTime(ret.startTime)
SlotEnd == StrpTime(ret.endTime)

RequestedDay == FromIsoFormat(call.start_date_str)
RequestedMinutes == ParseDuration(call.duration_str)
Window == RequestedDay..(RequestedDay + range_days - 1)

\* the strict half-open overlap test of two intervals
StrictOverlap(aStart, aEnd, bStart, bEnd) == aStart < bEnd /\ aEnd > bStart

EventsOn(user_id, d) ==
    {i \in 1..Len(events) : events[i].user_id = user_id /\ events[i].date = d}

\* [t, t + dur) on day d overlaps no event of the user
FreeAt(user_id, d, t, dur) ==
    \A i \in EventsOn(user_id, d) :
        ~StrictOverlap(t, t + dur, events[i].start_time, events[i].end_time)

\* the start times inside the working hours whose slot ends by 17:00
StartsInHours(dur) == {t \in work_start..work_end : t + dur <= work_end}

DayHasFreeSlot(user_id, d, dur) ==
    \E t \in StartsInHours(dur) : FreeAt(user_id, d, t, dur)

\* C2: every slot find_available_slot returns is free: on the returned date the
\* interval [start, end) overlaps no event of the user (strict half-open test).
Claim_C2_ReturnedSlotIsFree ==
    SlotReturned =>
        \A i \in EventsOn(call.user_id, SlotDay) :
            ~StrictOverlap(SlotStart, SlotEnd, events[i].start_time, events[i].end_time)

\* C3: find_available_slot is earliest-fit: no earlier day of the window has a
\* free slot of the requested duration inside the working hours, and on the
\* returned day no earlier start in the working hours gives a free slot ending
\* by 17:00; with no events on the earliest date the slot starts there at
\* 09:00, and with the single busy interval [09:00, 10:00) a 60-minute request
\* gets 10:00-11:00.
Thm_C3_EarliestFit ==
    SlotReturned =>
        /\ \A d \in Window : d < SlotDay => ~DayHasFreeSlot(call.user_id, d, RequestedMinutes)
        /\ \A t \in StartsInHours(RequestedMinutes) :
              t < SlotStart => ~FreeAt(call.user_id, SlotDay, t, RequestedMinutes)
        /\ EventsOn(call.user_id, RequestedDay) = {} =>
              SlotDay = RequestedDay /\ SlotStart = work_start
        /\ ( /\ RequestedMinutes = 60
             /\ EventsOn(call.user_id, RequestedDay) # {}
             /\ \A i \in EventsOn(call.user_id, RequestedDay) :
                   events[i].start_time = 540 /\ events[i].end_time = 600 )
           => ret = [kind |-> "slot", date |-> IsoFormat(RequestedDay),
                     startTime |-> <<"hm", 10, 0>>, endTime |-> <<"hm", 11, 0>>]

\* a slot found on a later day of the window, after a conflict on that day
Wit_C3_LaterDayAfterConflict ==
    /\ SlotReturned
    /\ SlotDay > RequestedDay
    /\ SlotStart > work_start
    /\ RequestedMinutes > 0

\* C4: find_available_slot returns None exactly when no day of the window has a
\* start time in the working hours whose slot ends by 17:00 and overlaps no
\* busy interval; in particular a window whose every day is booked from 09:00
\* to 17:00 gives None.
FullyBooked(user_id, d) ==
    \E i \in EventsOn(user_id, d) :
        events[i].start_time <= work_start /\ events[i].end_time >= work_end

Claim_C4_NoneIffNoFreeSlot ==
    (SlotCalled /\ ret.kind \in {"slot", "None"}) =>
        /\ ret.kind = "None" <=>
              \A d \in Window : ~DayHasFreeSlot(call.user_id, d, RequestedMinutes)
        /\ (\A d \in Window : FullyBooked(call.user_id, d)) => ret.kind = "None"

\* C5: every returned slot lies on one of the range_days days from the earliest
\* date, starts at or after 09:00 and ends at or before 17:00 of that day.
Claim_C5_SlotInsideWorkingHours ==
    SlotReturned =>
        /\ SlotDay \in Window
        /\ SlotStart >= work_start
        /\ SlotEnd <= work_end

(***************************************************************************)
(* Properties of the event matcher (MatchSpec).                            *)
(***************************************************************************)
UpperChar(c) ==
    CASE c = "g" -> "G" [] c = "y" -> "Y" [] c = "m" -> "M" [] c = "a" -> "A"
      [] c = "w" -> "W" [] OTHER -> c

\* two texts are equal ignoring case
EqualIgnoringCase(a, b) ==
    Len(a) = Len(b) /\ \A i \in 1..Len(a) : UpperChar(a[i]) = UpperChar(b[i])

\* the title contains the keyword as a case-insensitive substring
ContainsIgnoringCase(title, keyword) ==
    \E i \in 1..(Len(title) - Len(keyword) + 1) :
        EqualIgnoringCase(SubSeq(title, i, i + Len(keyword) - 1), keyword)

DateGiven == call.date # None /\ call.date # <<>>

\* event i of the input satisfies the search criteria of the call
Qualifies(i) ==
    /\ call.title_keyword # <<>>
    /\ ContainsIgnoringCase(events[i].title, call.title_keyword)
    /\ DateGiven => IsoFormat(events[i].date) = call.date

\* C10: the matched event is the first event, in input order, whose title
\* contains the non-empty keyword ignoring case and, when a date is given,
\* whose ISO date string equals it; an empty keyword matches no event.
Thm_C10_FirstQualifyingEvent ==
    call.op = "match" =>
        LET q == {i \in 1..Len(events) : Qualifies(i)}
        IN  /\ q = {} => ret.matched = <<>>
            /\ q # {} => ret.matched = <<events[CHOOSE i \in q : \A j \in q : i <= j]>>
            /\ call.title_keyword = <<>> => ret.matched = <<>>

\* two events qualify and differ, the keyword's case differs from the title's
Wit_C10_FirstOfSeveral ==
    /\ call.op = "match"
    /\ DateGiven
    /\ Cardinality({i \in 1..Len(events) : Qualifies(i)}) >= 2
    /\ ret.matched = <<events[1]>>
    /\ events[1] # events[2]
    /\ ~IsSubstring(call.title_keyword, events[1].title)

(***************************************************************************)
(* Properties of the command pipeline (Spec).                              *)
(***************************************************************************)
ChatDone == call.op = "process_message" /\ call.pc = "done"
Answered == ChatDone /\ ret.kind = "response"
Dispatched == Answered /\ call.step = "dispatch"

CommandIs(intents) ==
    Dispatched /\ call.parsed.intent \in intents /\ call.parsed.entities.json # "null"

\* the events stored by the command
CreatedEvents ==
    {i \in 1..Len(events) :
        \A j \in 1..Len(call.before.events) : call.before.events[j].id # events[i].id}

StoreUnchanged ==
    /\ events = call.before.events
    /\ categories = call.before.categories
    /\ todos = call.before.todos

\* C1: process_message always returns a ChatResponse to its caller, and the
\* failure of a collaborator gives a response with action_taken = "error".
Claim_C1_TotalWithErrorResponse ==
    ChatDone =>
        /\ ret.kind = "response"
        /\ ret.out.failed # "none" => ret.out.resp.action_taken = "error"

AutoScheduled == CommandIs({"create_event"}) /\ AutoSchedule(call.parsed.entities)

RangeGiven ==
    /\ JsonTruthy(call.parsed.entities.time_range_start)
    /\ JsonTruthy(call.parsed.entities.time_range_end)

\* C6: an auto-scheduled create_event with time_range_start and
\* time_range_end given schedules inside the requested window: the date of
\* the slot and of the event created is not before time_range_start and not
\* after time_range_end.
Claim_C6_SlotInsideRequestedRange ==
    AutoScheduled /\ RangeGiven /\ ret.out.slot.kind = "slot" =>
        LET first == FromIsoFormat(call.parsed.entities.time_range_start)
            last == FromIsoFormat(call.parsed.entities.time_range_end)
        IN  /\ FromIsoFormat(ret.out.slot.date) \in first..last
            /\ \A i \in CreatedEvents : events[i].date \in first..last

\* C7: an auto-scheduled create_event with a title: when the slot finder
\* returns None no event is created and action_taken is null; when it
\* returns a slot exactly one event is created, with the date, start time
\* and end time of the slot, and action_taken = "create_event".
Claim_C7_AutoScheduleOutcome ==
    AutoScheduled /\ JsonTruthy(call.parsed.entities.title)
                  /\ ret.out.failed = "none" =>
        /\ ret.out.slot.kind = "None" =>
              /\ events = call.before.events
              /\ ret.out.resp.action_taken = "None"
        /\ ret.out.slot.kind = "slot" =>
              /\ Len(events) = Len(call.before.events) + 1
              /\ \A i \in CreatedEvents :
                    /\ IsoFormat(events[i].date) = ret.out.slot.date
                    /\ StrfTime(events[i].start_time) = ret.out.slot.startTime
                    /\ StrfTime(events[i].end_time) = ret.out.slot.endTime
              /\ Cardinality(CreatedEvents) = 1
              /\ ret.out.resp.action_taken = "create_event"

TimesAbsent ==
    /\ ~JsonTruthy(call.parsed.entities.startTime)
    /\ ~JsonTruthy(call.parsed.entities.endTime)

RangeHint ==
    \/ JsonTruthy(call.parsed.entities.time_range_start)
    \/ JsonTruthy(call.parsed.entities.time_range_end)

SlotFinderRan == ret.out.slot.kind # "not_run"

\* C8 as stated: create_event runs the slot finder when the auto_schedule
\* flag is set, and also when startTime and endTime are both absent and a
\* date-range hint is present although the flag is not set.
Claim_C8_FlagOrRangeHint ==
    CommandIs({"create_event"}) =>
        /\ JsonTruthy(call.parsed.entities.auto_schedule) => SlotFinderRan
        /\ TimesAbsent /\ RangeHint => SlotFinderRan

\* C8, amended: create_event runs the slot finder exactly when the
\* auto_schedule flag is set; without the flag and without startTime and
\* endTime the finder is not run even with a date-range hint: the command
\* ends with action_taken = "error" and creates no event.
Thm_C8_FlagOnly ==
    CommandIs({"create_event"}) =>
        /\ SlotFinderRan <=> JsonTruthy(call.parsed.entities.auto_schedule)
        /\ ~JsonTruthy(call.parsed.entities.auto_schedule) /\ TimesAbsent =>
              /\ ret.out.resp.action_taken = "error"
              /\ StoreUnchanged

\* no flag, no times, a range hint and a free calendar: no slot is looked for
Wit_C8_RangeHintWithoutFlag ==
    /\ CommandIs({"create_event"})
    /\ ~JsonTruthy(call.parsed.entities.auto_schedule)
    /\ TimesAbsent /\ RangeHint
    /\ JsonTruthy(call.parsed.entities.title)
    /\ ~SlotFinderRan
    /\ ret.out.resp.action_taken = "error"

\* the search criteria of the command name a keyword that is a text
CriteriaUsable ==
    /\ call.parsed.search_criteria.json # "null"
    /\ call.parsed.search_criteria.title_keyword # None

SearchKeyword == GetDefault(call.parsed.search_criteria.title_keyword, <<>>)
SearchDate == Get(call.parsed.search_criteria.date)

\* event e satisfies the search criteria of the command
Matches(e) ==
    /\ e.user_id = "alice"
    /\ SearchKeyword # <<>>
    /\ ContainsIgnoringCase(e.title, SearchKeyword)
    /\ SearchDate \notin {None, <<>>} => IsoFormat(e.date) = SearchDate

NoCandidate ==
    \A j \in 1..Len(call.before.events) : ~Matches(call.before.events[j])

\* C9: an update_event or delete_event command whose search criteria no event
\* of the commanding user satisfies answers with the clarification message
\* and action_taken null, and updates or deletes nothing.
Thm_C9_NoCandidateClarifies ==
    /\ CommandIs({"update_event", "delete_event"})
    /\ CriteriaUsable /\ ret.out.failed = "none"
    /\ NoCandidate
    => /\ ret.out.resp.response.kind = "clarify"
       /\ ret.out.resp.action_taken = "None"
       /\ StoreUnchanged

\* the user has an event whose title holds the keyword, on another date
Wit_C9_EventOnAnotherDate ==
    /\ CommandIs({"delete_event"})
    /\ CriteriaUsable /\ ret.out.failed = "none"
    /\ NoCandidate
    /\ \E j \in 1..Len(call.before.events) :
          /\ call.before.events[j].user_id = "alice"
          /\ ContainsIgnoringCase(call.before.events[j].title, SearchKeyword)
    /\ ret.out.resp.response.kind = "clarify"
    /\ events = call.before.events

(***************************************************************************)
(* Update and delete of a resolved match.                                  *)
(***************************************************************************)
\* the positions, in the store before the command, of the events that
\* satisfy its search criteria
Qualifying == {j \in 1..Len(call.before.events) : Matches(call.before.events[j])}

FirstQualifying == CHOOSE j \in Qualifying : \A k \in Qualifying : j <= k

\* the command reached its persistence call with a match, and the call returned
Resolved(intent) ==
    /\ CommandIs({intent})
    /\ CriteriaUsable /\ ret.out.failed = "none"
    /\ Qualifying # {}

\* the sequence without its element at position j
Without(rows, j) == SubSeq(rows, 1, j - 1) \o SubSeq(rows, j + 1, Len(rows))

\* C11: a delete_event command with a resolved match removes the matched
\* event, the first that satisfies the search criteria, and nothing else:
\* every other event, every todo and every category is as before.
Thm_C11_DeletesExactlyTheMatch ==
    Resolved("delete_event") =>
        /\ events = Without(call.before.events, FirstQualifying)
        /\ categories = call.before.categories
        /\ todos = call.before.todos

\* two different events of the user satisfy the criteria; the second stays
Wit_C11_OneOfSeveralDeleted ==
    /\ Resolved("delete_event")
    /\ Cardinality(Qualifying) >= 2
    /\ call.before.events[1].end_time # call.before.events[2].end_time
    /\ events = <<call.before.events[2]>>

\* the object the claim takes the changes from
UpdateSource ==
    IF call.parsed.updates.json = "object" THEN call.parsed.updates
    ELSE call.parsed.entities

\* the category a name of the object resolves to in the snapshot (0: none)
ResolvedCategory(o) ==
    LET name == PyOr(Get(o.category_name), Get(o.name))
        hits == {i \in 1..Len(call.snapshot) :
                    JsonTruthy(name) /\ EqualIgnoringCase(call.snapshot[i].name, name)}
    IN  IF hits = {} THEN 0
        ELSE call.snapshot[CHOOSE i \in hits : \A k \in hits : i <= k].id

\* event e with the non-null values of object o written over it
Overwritten(e, o) ==
    [e EXCEPT !.title = IF Get(o.title) # None THEN o.title ELSE @,
              !.date = IF Get(o.date) # None THEN StrpDate(o.date) ELSE @,
              !.start_time = IF Get(o.startTime) # None THEN StrpTime(o.startTime) ELSE @,
              !.end_time = IF Get(o.endTime) # None THEN StrpTime(o.endTime) ELSE @,
              !.category_id = IF ResolvedCategory(o) # 0 THEN ResolvedCategory(o) ELSE @]

\* C12: an update_event command with a resolved match takes the changes from
\* the updates object when one is supplied and from entities only when none
\* is; the title, date, start time, end time and category that object gives
\* are written over the matched event, its other fields and every other
\* event are unchanged.
Claim_C12_UpdateFromOneObject ==
    Resolved("update_event") =>
        /\ events = [call.before.events EXCEPT
                        ![FirstQualifying] = Overwritten(@, UpdateSource)]
        /\ categories = call.before.categories
        /\ todos = call.before.todos

(***************************************************************************)
(* Isolation of users.                                                     *)
(***************************************************************************)
EventsOf(rows, user_id) == SelectSeq(rows, LAMBDA e : e.user_id = user_id)
EventsOfOthers(rows, user_id) == SelectSeq(rows, LAMBDA e : e.user_id # user_id)

\* what a user sees of an event: everything but the primary key, which the
\* store hands out across all users
Content(e) ==
    [title |-> e.title, date |-> e.date, start_time |-> e.start_time,
     end_time |-> e.end_time, category_id |-> e.category_id]

Contents(rows) == [i \in 1..Len(rows) |-> Content(rows[i])]

\* the same command, with the same collaborator failure, on the store
\* without the events of the other users
Alone ==
    Dispatch([call.before EXCEPT !.events = EventsOf(@, "alice")], "alice",
             call.snapshot, call.parsed, ret.out.failed)

\* C13: the events of other users have no influence on a command and are
\* not touched by it: on the store without them the command gives the same
\* response, finds the same slot and the same match, and leaves the
\* commanding user's events with the same contents; the other users' events
\* are after the command what they were before.
Thm_C13_OtherUsersInvisible ==
    Dispatched =>
        /\ Alone.resp = ret.out.resp
        /\ Alone.slot = ret.out.slot
        /\ Alone.matched = ret.out.matched
        /\ Alone.failed = ret.out.failed
        /\ Contents(EventsOf(Alone.db.events, "alice")) = Contents(EventsOf(events, "alice"))
        /\ EventsOfOthers(events, "alice") = EventsOfOthers(call.before.events, "alice")

\* another user is busy all day 0 and holds an event the keyword names; the
\* command schedules the user's event at 09:00 that day
Wit_C13_SlotOverAnotherUsersEvent ==
    /\ Dispatched
    /\ \E j \in 1..Len(call.before.events) :
          /\ call.before.events[j].user_id = "bob"
          /\ call.before.events[j].date = 0
          /\ call.before.events[j].start_time = work_start
    /\ ret.out.slot.kind = "slot"
    /\ ret.out.slot.date = IsoFormat(0)
    /\ ret.out.slot.startTime = NineOClock
    /\ ret.out.resp.action_taken = "create_event"
    /\ Len(events) = Len(call.before.events) + 1

(***************************************************************************)
(* Categories.                                                             *)
(***************************************************************************)
\* the category name of the command
CommandCategoryName ==
    PyOr(Get(call.parsed.entities.category_name), Get(call.parsed.entities.name))

\* a category of these rows has this name, ignoring case
ExistsIgnoringCase(rows, name) ==
    \E i \in 1..Len(rows) : EqualIgnoringCase(rows[i].name, name)

\* a create_category command that names a category and whose calls returned
NamesCategory ==
    /\ CommandIs({"create_category"})
    /\ JsonTruthy(CommandCategoryName)
    /\ ret.out.failed = "none"

\* C14: a create_category command whose name equals that of an existing
\* category ignoring case stores nothing and answers that the category
\* already exists; otherwise exactly one category, of that name, is stored,
\* action_taken is "create_category" and the payload is its id and name.
Claim_C14_CreateCategoryOutcome ==
    NamesCategory =>
        IF ExistsIgnoringCase(call.before.categories, CommandCategoryName)
        THEN /\ StoreUnchanged
             /\ ret.out.resp.response.kind = "already_exists"
        ELSE /\ Len(categories) = Len(call.before.categories) + 1
             /\ SubSeq(categories, 1, Len(call.before.categories)) = call.before.categories
             /\ categories[Len(categories)].name = CommandCategoryName
             /\ ret.out.resp.action_taken = "create_category"
             /\ ret.out.resp.data = [json |-> "object",
                                     id |-> categories[Len(categories)].id,
                                     name |-> CommandCategoryName]

\* C15: in every reachable state no two stored categories have names that
\* are equal ignoring case.
Claim_C15_NamesUniqueIgnoringCase ==
    \A i, j \in 1..Len(categories) :
        i # j => ~EqualIgnoringCase(categories[i].name, categories[j].name)

\* the name was free in the snapshot of the command and was stored by
\* another request before the command's create call
LostRace ==
    /\ NamesCategory
    /\ ~ExistsIgnoringCase(call.snapshot, CommandCategoryName)
    /\ NameTaken(call.before.categories, CommandCategoryName)

\* C16: a create_category command that lost the race for its name ends with
\* the category-already-exists outcome, not with action_taken = "error", and
\* stores no second category of that name.
Claim_C16_LostRaceIsAlreadyExists ==
    LostRace =>
        /\ ret.out.resp.action_taken # "error"
        /\ ret.out.resp.response.kind = "already_exists"
        /\ categories = call.before.categories

\* the todos stored by the command
CreatedTodos ==
    {i \in 1..Len(todos) :
        \A j \in 1..Len(call.before.todos) : call.before.todos[j].id # todos[i].id}

\* a create_event or create_todo command that names a category and has what
\* its record needs: a title and, for an event, a date and both times
NamesCategoryOfRecord ==
    /\ CommandIs({"create_event", "create_todo"})
    /\ JsonTruthy(CommandCategoryName)
    /\ ret.out.failed = "none"
    /\ JsonTruthy(call.parsed.entities.title)
    /\ call.parsed.intent = "create_event" =>
          /\ ~JsonTruthy(call.parsed.entities.auto_schedule)
          /\ OkCreateEvent(Get(call.parsed.entities.date),
                           Get(call.parsed.entities.startTime),
                           Get(call.parsed.entities.endTime))
    /\ call.parsed.intent = "create_todo" =>
          \/ ~JsonTruthy(call.parsed.entities.due_date)
          \/ OkStrpDate(call.parsed.entities.due_date)

\* C17: create_event and create_todo resolve the category name ignoring
\* case against the snapshot and store the id on the record they create; a
\* name that matches no category is dropped: the record is created with no
\* category and the command does not fail.
Claim_C17_CategoryNameResolved ==
    NamesCategoryOfRecord =>
        /\ ret.out.resp.action_taken = call.parsed.intent
        /\ Cardinality(CreatedEvents) + Cardinality(CreatedTodos) = 1
        /\ \A i \in CreatedEvents :
              events[i].category_id = ResolvedCategory(call.parsed.entities)
        /\ \A i \in CreatedTodos :
              todos[i].category_id = ResolvedCategory(call.parsed.entities)

(***************************************************************************)
(* The extraction call comes first.                                        *)
(***************************************************************************)
\* a step of the command (the REST requests leave call alone) that changes
\* the store
CommandMutates == call' # call /\ Db' # Db

\* the command ended without a parsed document: no key, or the extraction
\* call raised or answered with something that is not JSON
ExtractionFailed == Answered /\ call.step \in {"api_key", "llm"}

\* C18: the command changes the store only in the step that dispatches the
\* parsed answer of the extraction call, never before; a command with no
\* key, or whose extraction call fails or answers with unparseable output,
\* ends with action_taken = "error" and has changed nothing.
Thm_C18_NoMutationBeforeExtraction ==
    /\ [][CommandMutates => Awaiting /\ call'.step = "dispatch"]_vars
    /\ [](ExtractionFailed => ret.out.resp.action_taken = "error" /\ StoreUnchanged)

\* the extraction call failed while the store held an event and a category
Wit_C18_ExtractionFailedOnFilledStore ==
    /\ ExtractionFailed
    /\ call.step = "llm"
    /\ events # <<>> /\ categories # <<>>
    /\ call.snapshot # categories
    /\ ret.out.resp.action_taken = "error"

(***************************************************************************)
(* The duration of the slot search (SlotSpec).                             *)
(***************************************************************************)
\* the minutes the duration value stands for: "<n>h" is n*60, "<n>m" is n,
\* anything else is 60
StatedMinutes(duration_str) ==
    IF IsJNumber(duration_str) \/ duration_str \in {None, <<>>} THEN 60
    ELSE IF duration_str[Len(duration_str)] = "h"
            /\ OkPyFloat(SubSeq(duration_str, 1, Len(duration_str) - 1))
         THEN PyFloatTimes60(SubSeq(duration_str, 1, Len(duration_str) - 1))
    ELSE IF duration_str[Len(duration_str)] = "m"
            /\ OkPyInt(SubSeq(duration_str, 1, Len(duration_str) - 1))
         THEN PyInt(SubSeq(duration_str, 1, Len(duration_str) - 1))
    ELSE 60

\* the search ran to its end: it returned a slot or None
SearchProceeded == ret.kind \in {"slot", "None"}

\* C19: whatever the duration value is, a slot search from a valid start
\* date runs to its end, and a slot it returns has the length the value
\* stands for ("<n>h" n*60 minutes, "<n>m" n minutes, anything else 60).
Claim_C19_DurationNeverFails ==
    SlotCalled /\ OkFromIsoFormat(call.start_date_str) =>
        /\ SearchProceeded
        /\ ret.kind = "slot" /\ StatedMinutes(call.duration_str) >= 0 =>
               SlotEnd - SlotStart = StatedMinutes(call.duration_str)

(***************************************************************************)
(* The overlap check (OverlapSpec).                                        *)
(***************************************************************************)
OverlapChecked == call.op = "is_busy"

\* the candidate is A, the busy slot is B
CheckedIntervals(aStart, aEnd, bStart, bEnd) ==
    /\ OverlapChecked
    /\ call.current_slot_start = aStart /\ call.slot_end = aEnd
    /\ call.b_start = bStart /\ call.b_end = bEnd

\* C20: the overlap check of the slot finder holds of A and B exactly when
\* A.start < B.end and A.end > B.start; intervals that touch at an endpoint
\* do not overlap: [9:00,10:00) and [10:00,11:00) do not, [9:00,10:00) and
\* [9:30,10:30) do.
Thm_C20_StrictHalfOpenOverlap ==
    /\ OverlapChecked =>
          (ret.is_busy <=> call.current_slot_start < call.b_end
                           /\ call.slot_end > call.b_start)
    /\ OverlapChecked /\ call.current_slot_start < call.slot_end
          /\ call.b_start < call.b_end
          /\ (call.slot_end = call.b_start \/ call.b_end = call.current_slot_start)
          => ~ret.is_busy
    /\ CheckedIntervals(540, 600, 600, 660) => ~ret.is_busy
    /\ CheckedIntervals(540, 600, 570, 630) => ret.is_busy

\* [9:00,10:00) was tested against [10:00,11:00) and found free
Wit_C20_TouchingIntervalsFree == CheckedIntervals(540, 600, 600, 660) /\ ~ret.is_busy

(***************************************************************************)
(* Intervals.                                                              *)
(***************************************************************************)
\* a busy interval or a slot, as a pair of minutes of the day
Proper(interval) == interval[1] < interval[2]

\* the slot a command found, read back from the strings of the slot finder
FoundSlot(slot) == <<StrpTime(slot.startTime), StrpTime(slot.endTime)>>

\* C21: every interval the core builds has start < end: the busy interval of
\* every stored event, whatever create_event and update_event commands ran
\* before, and every slot the slot finder returns.
Claim_C21_IntervalsProper ==
    /\ \A i \in 1..Len(events) : Proper(BusySlot(events[i]))
    /\ SlotReturned => Proper(FoundSlot(ret))
    /\ Answered /\ ret.out.slot.kind = "slot" => Proper(FoundSlot(ret.out.slot))

(***************************************************************************)
(* query_calendar (QuerySpec).                                             *)
(***************************************************************************)
Queried == CommandIs({"query_calendar"})

\* the bounds of the query: the range start, else the date, else today; the
\* range end, else the start
QueryStart ==
    LET e == call.parsed.entities
    IN  IF JsonTruthy(e.date_range_start) THEN e.date_range_start
        ELSE IF JsonTruthy(e.date) THEN e.date ELSE TodayStr

QueryEnd ==
    LET e == call.parsed.entities
    IN  IF JsonTruthy(e.date_range_end) THEN e.date_range_end ELSE QueryStart

IsoBounds == QueryStart[1] = "iso" /\ QueryEnd[1] = "iso"

\* the events the listing is to show, as the lines that show them
Listed ==
    {i \in 1..Len(call.before.events) :
        /\ call.before.events[i].user_id = "alice"
        /\ QueryStart[2] <= call.before.events[i].date
        /\ call.before.events[i].date <= QueryEnd[2]}

LineOf(e) == <<IsoFormat(e.date), StrfTime(e.start_time), e.title>>

Count(lines, x) == Cardinality({i \in 1..Len(lines) : lines[i] = x})

Ascending(lines) ==
    \A i \in 1..(Len(lines) - 1) :
        \/ lines[i][1][2] < lines[i + 1][1][2]
        \/ /\ lines[i][1][2] = lines[i + 1][1][2]
           /\ StrpTime(lines[i][2]) <= StrpTime(lines[i + 1][2])

\* C22: query_calendar lists exactly the commanding user's events with
\* start_date <= date <= end_date (ISO date strings), one line per event in
\* ascending (date, start_time) order, or answers that there are no events
\* when there is none; end_date defaults to start_date and start_date to
\* today; the command changes nothing and its action_taken is null.
Thm_C22_QueryListsRange ==
    Queried =>
        /\ StoreUnchanged
        /\ ret.out.resp.action_taken = "None"
        /\ ret.out.resp.response.kind \in {"no_events", "schedule"}
        /\ ret.out.resp.response.start = QueryStart
        /\ ret.out.resp.response.end = QueryEnd
        /\ IsoBounds =>
              /\ ret.out.resp.response.kind = "no_events" <=> Listed = {}
              /\ ret.out.resp.response.kind = "schedule" =>
                    LET lines == ret.out.resp.response.lines
                    IN  /\ Len(lines) = Cardinality(Listed)
                        /\ \A i \in Listed :
                              Count(lines, LineOf(call.before.events[i])) =
                              Cardinality({j \in Listed :
                                  LineOf(call.before.events[j]) =
                                  LineOf(call.before.events[i])})
                        /\ Ascending(lines)

\* two events are listed in the order opposite to the stored one, by a query
\* for a single date duplicated as both bounds
Wit_C22_TwoLinesReordered ==
    /\ Queried
    /\ call.parsed.entities.date_range_start = Missing
    /\ call.parsed.entities.date_range_end = Missing
    /\ call.parsed.entities.date = IsoFormat(2)
    /\ Len(events) = 2
    /\ ret.out.resp.response.kind = "schedule"
    /\ Len(ret.out.resp.response.lines) = 2
    /\ ret.out.resp.response.lines[1] = LineOf(events[2])
    /\ ret.out.resp.response.lines[1] # LineOf(events[1])

(***************************************************************************)
(* Intent unknown.                                                         *)
(***************************************************************************)
\* the response is a text, with no sentence appended
SaidVerbatim(response_text) ==
    /\ ret.out.resp.response.kind = "text"
    /\ ret.out.resp.response.text = response_text
    /\ ret.out.resp.response.scheduled = <<>>

\* C23: for intent unknown the response is the response_text of the
\* extraction output verbatim, action_taken is null and nothing is stored,
\* changed or deleted.
Claim_C23_UnknownIsVerbatim ==
    CommandIs({"unknown"}) /\ call.parsed.response_text # Missing =>
        /\ SaidVerbatim(call.parsed.response_text)
        /\ ret.out.resp.action_taken = "None"
        /\ StoreUnchanged

(***************************************************************************)
(* Absent and null search criteria.                                        *)
(***************************************************************************)
\* the command names no event: the criteria or their keyword are absent or null
NoKeyword(absent) ==
    \/ call.parsed.search_criteria.json \in absent
    \/ /\ call.parsed.search_criteria.json = "object"
       /\ call.parsed.search_criteria.title_keyword \in
             {IF "missing" \in absent THEN Missing ELSE None,
              IF "null" \in absent THEN None ELSE Missing}

Clarified ==
    /\ ret.out.resp.response.kind = "clarify"
    /\ ret.out.resp.action_taken = "None"
    /\ StoreUnchanged

\* C24: an update_event or delete_event command whose search_criteria is
\* missing or null, or whose title_keyword is missing or null, is answered
\* with the clarification, action_taken null and no mutation, not an error.
Claim_C24_AbsentCriteriaClarify ==
    /\ CommandIs({"update_event", "delete_event"})
    /\ ret.out.failed = "none"
    /\ NoKeyword({"missing", "null"})
    => Clarified

(***************************************************************************)
(* The scan of a day (SlotSpec).                                           *)
(***************************************************************************)
\* the busy intervals of the caller on day d and the scan of that day
BusyOn(d) == BusySlots(get_events_by_user(events, call.user_id), d)
DayScan(d) == ScanDay(BusyOn(d), work_start, RequestedMinutes, <<>>)

\* the busy intervals the candidate starting at t overlaps
ConflictsAt(d, t) ==
    {i \in 1..Len(BusyOn(d)) :
        StrictOverlap(t, t + RequestedMinutes, BusyOn(d)[i][1], BusyOn(d)[i][2])}

\* C25: find_available_slot returns for every event list (events whose end
\* is not after their start included) and every duration; in the scan of a
\* day a conflict moves the candidate start to the end of a conflicting
\* interval, which is strictly later; every start probed is 09:00 or the end
\* of a busy interval of the day; a day has at most (busy intervals + 1)
\* probes.
Thm_C25_ScanIsLinear ==
    SlotCalled /\ OkParseDuration(call.duration_str)
               /\ OkFromIsoFormat(call.start_date_str) =>
        /\ ret.kind \in {"slot", "None"}
        /\ \A d \in Window :
              LET probed == DayScan(d).probed
              IN  /\ Len(probed) <= Len(BusyOn(d)) + 1
                  /\ \A k \in 1..Len(probed) :
                        \/ probed[k] = work_start
                        \/ \E i \in 1..Len(BusyOn(d)) : probed[k] = BusyOn(d)[i][2]
                  /\ \A k \in 1..(Len(probed) - 1) :
                        /\ probed[k] < probed[k + 1]
                        /\ \E i \in ConflictsAt(d, probed[k]) :
                              probed[k + 1] = BusyOn(d)[i][2]

\* a day with an event that ends where it starts: the scan conflicts with the
\* other event of the day and finds its slot at the end of that event
Wit_C25_ConflictThenSlot ==
    /\ SlotReturned
    /\ SlotDay = RequestedDay
    /\ Len(BusyOn(SlotDay)) = 2
    /\ \E i \in 1..2 : BusyOn(SlotDay)[i][2] <= BusyOn(SlotDay)[i][1]
    /\ DayScan(SlotDay).probed = <<work_start, 600>>
    /\ SlotStart = 600

(***************************************************************************)
(* The order in which storage returns the events (OrderSpec).              *)
(***************************************************************************)
Orders(n) == {p \in [1..n -> 1..n] : \A i, j \in 1..n : p[i] = p[j] => i = j}

\* the event list in every order
Reordered(rows) == {[i \in 1..Len(rows) |-> rows[p[i]]] : p \in Orders(Len(rows))}

\* C26: find_available_slot does not depend on the order in which storage
\* returns the events: the same events in another order (events that share
\* a start time and differ in their end time included) give the same result
\* for the same start date and duration.
Thm_C26_StorageOrderIrrelevant ==
    SlotCalled =>
        \A rows \in Reordered(events) :
            find_available_slot(rows, call.user_id, call.start_date_str,
                                call.duration_str) = ret

\* two events of the caller start together on the requested day, the one
\* stored first ending earlier; the slot is found on the next day
Wit_C26_SameStartDifferentEnds ==
    /\ SlotReturned
    /\ SlotDay = RequestedDay + 1
    /\ RequestedMinutes = 60
    /\ \E i, j \in EventsOn(call.user_id, RequestedDay) :
          /\ i < j
          /\ events[i].start_time = work_start /\ events[i].end_time = 600
          /\ events[j].start_time = work_start /\ events[j].end_time = work_end

(***************************************************************************)
(* Double booking (BookSpec).                                              *)
(***************************************************************************)
DoubleBooked ==
    \E i, j \in 1..Len(events) : i < j /\ SameDayOverlap(events[i], events[j])

\* C27: from a calendar in which no two events of a user overlap, auto-
\* scheduled create_event commands processed one at a time never leave two
\* events of one user on one date that overlap.
Claim_C27_NoDoubleBooking == ~DoubleBooked

(***************************************************************************)
(* Two commands at the same time (RaceSpec).                               *)
(***************************************************************************)
BothCreated == Racing /\ \A c \in Commands : call.pc[c] = "done" /\ call.created[c] # 0

EventOfCommand(c) == CHOOSE e \in {events[i] : i \in 1..Len(events)} : e.id = call.created[c]

\* C28: however the steps of two auto-scheduled create_event commands of one
\* user interleave (each reads the events, finds a slot, then stores its
\* event), the two events they store do not overlap.
Claim_C28_ConcurrentCommandsDisjoint ==
    BothCreated => ~SameDayOverlap(EventOfCommand(1), EventOfCommand(2))

(***************************************************************************)
(* Errors after a commit.                                                  *)
(***************************************************************************)
Errored == Answered /\ ret.out.resp.action_taken = "error"

\* C29: a command that returns action_taken = "error" has left events,
\* todos and categories as they were: no committed mutation is followed by
\* an error response, whatever the extraction output (a null or missing
\* response_text included).
Claim_C29_ErrorMeansNoMutation == Errored => StoreUnchanged

(***************************************************************************)
(* Deleting categories (DeleteSpec).                                       *)
(***************************************************************************)
DeleteAnswered == call.op = "delete_category"

\* the category_id of every event and todo is null or that of a stored category
NoDanglingCategory ==
    /\ \A i \in 1..Len(events) :
          events[i].category_id = 0 \/ CategoryExists(events[i].category_id)
    /\ \A i \in 1..Len(todos) :
          todos[i].category_id = 0 \/ CategoryExists(todos[i].category_id)

\* C30: a category referenced by an event or a todo is never deleted: both
\* delete operations reject the request when the category has referencing
\* events or todos at that moment, whatever the stored usage_count; the
\* category_id of every event and todo refers to a stored category.
Claim_C30_ReferencedCategoryKept ==
    /\ DeleteAnswered /\ call.references > 0 => ret.kind = "BadRequest"
    /\ NoDanglingCategory

====
